---------------------------- MODULE Spec2Model ----------------------------
(***************************************************************************)
(* CL-AI: a command-line assistant that asks a local LLM for a shell       *)
(* command, extracts the command from the reply and runs it after the      *)
(* user confirms.                                                          *)
(*                                                                         *)
(* Two revisions of the program are in the repository and both are         *)
(* modelled:                                                               *)
(*   CommandAI  src/cmd_ai.py                                              *)
(*   CLAI       src/build/lib/cmd_ai.py                                    *)
(*                                                                         *)
(* A Python str is a sequence of one-character strings.                    *)
(***************************************************************************)
EXTENDS Integers, Sequences, FiniteSets, TLC

VARIABLES
    impl,          \* which revision runs: "CommandAI" or "CLAI"
    handler,       \* the entry point in use: process_command or one_shot_mode
    pc,            \* position of the running call
    config,        \* self.config
    default_config,\* what the module-level dict DEFAULT_CONFIG holds now
    aliased,       \* self.config is the DEFAULT_CONFIG object itself
    config_file,   \* what CONFIG_FILE holds
    history,       \* self.history
    history_file,  \* what HISTORY_FILE holds
    command,       \* the stripped input of the running call
    chosen,        \* the choice configure got at its menu
    entered,       \* the value configure got at its second prompt
    written,       \* what the running call dumped to CONFIG_FILE
    messages,      \* the message list query_llm built in the running call
    outcome,       \* how the request of the running call to the server went
    response,      \* the text handed to extract_command
    cmd,           \* what extract_command returned (or the exception it raised)
    printed,       \* what the running call printed on the console of its outcome
    frames,        \* the locals of the extract_command calls that run side by side
    shown,         \* the extracted command printed for the running call
    typed,         \* what the user typed at the Execute prompt
    run_prompt,    \* what Prompt.ask returned for the Execute prompt
    executed,      \* the commands run_command got during the running call
    result         \* how the last call ended

session_vars ==
    <<handler, config, default_config, aliased, config_file, history,
      history_file, command, chosen, entered, written, messages, outcome,
      shown,
      typed, run_prompt, executed, result>>

vars == <<impl, pc, response, cmd, printed, frames, session_vars>>

Impls == {"CommandAI", "CLAI"}

(***************************************************************************)
(* Python str primitives                                                   *)
(***************************************************************************)

\* the characters str.strip() removes and the regex class \s matches
Whitespace == {" ", "\t", "\n"}

UpperCase == {"A", "B", "C", "D", "E", "F", "G", "H", "I", "J", "K", "L", "M",
              "N", "O", "P", "Q", "R", "S", "T", "U", "V", "W", "X", "Y", "Z"}

LowerOf ==
    [c \in UpperCase |->
        CASE c = "A" -> "a" [] c = "B" -> "b" [] c = "C" -> "c" [] c = "D" -> "d"
          [] c = "E" -> "e" [] c = "F" -> "f" [] c = "G" -> "g" [] c = "H" -> "h"
          [] c = "I" -> "i" [] c = "J" -> "j" [] c = "K" -> "k" [] c = "L" -> "l"
          [] c = "M" -> "m" [] c = "N" -> "n" [] c = "O" -> "o" [] c = "P" -> "p"
          [] c = "Q" -> "q" [] c = "R" -> "r" [] c = "S" -> "s" [] c = "T" -> "t"
          [] c = "U" -> "u" [] c = "V" -> "v" [] c = "W" -> "w" [] c = "X" -> "x"
          [] c = "Y" -> "y" [] c = "Z" -> "z"]

\* str.lower()
lower(s) == [i \in 1..Len(s) |-> IF s[i] \in UpperCase THEN LowerOf[s[i]] ELSE s[i]]

\* str.lstrip()
RECURSIVE lstrip(_)
lstrip(s) == IF s # <<>> /\ Head(s) \in Whitespace THEN lstrip(Tail(s)) ELSE s

\* str.rstrip()
RECURSIVE rstrip(_)
rstrip(s) ==
    IF s # <<>> /\ s[Len(s)] \in Whitespace THEN rstrip(SubSeq(s, 1, Len(s) - 1)) ELSE s

\* str.strip()
strip(s) == rstrip(lstrip(s))

\* s.startswith(p)
startswith(s, p) == Len(p) <= Len(s) /\ \A k \in 1..Len(p) : s[k] = p[k]

\* s.find(p, i), 1-based: the lowest index >= i where p occurs in s, 0 when none
find(s, p, i) ==
    LET at == {j \in i..(Len(s) - Len(p) + 1) :
                  \A k \in 1..Len(p) : s[j + k - 1] = p[k]}
    IN  IF at = {} THEN 0 ELSE CHOOSE j \in at : \A h \in at : j <= h

\* p in s
contains(s, p) == find(s, p, 1) # 0

\* s.count(c) for a single character c
count(s, c) == Cardinality({i \in 1..Len(s) : s[i] = c})

\* s.split('\n'): the lines of s, at least one (the empty one for the empty str)
RECURSIVE split(_)
split(s) ==
    LET k == find(s, <<"\n">>, 1)
    IN  IF k = 0 THEN <<s>>
        ELSE <<SubSeq(s, 1, k - 1)>> \o split(SubSeq(s, k + 1, Len(s)))

\* s[1:]
slice1(s) == IF s = <<>> THEN <<>> ELSE Tail(s)

\* list[0]: raises IndexError on an empty list
IndexError == <<"IndexError">>
index0(list) == IF list = <<>> THEN IndexError ELSE list[1]

(***************************************************************************)
(* The regular expressions of extract_command                              *)
(***************************************************************************)

\* the backtick character (SANY reads no backtick inside a string)
BT == "BT"
\* the fence: three backticks
FENCE == <<BT, BT, BT>>
BASH == <<"b", "a", "s", "h">>

\* the index >= i of the first character of s that is not whitespace
\* (Len(s) + 1 when there is none): where a greedy \s* started at i ends
RECURSIVE skip_ws(_, _)
skip_ws(s, i) == IF i <= Len(s) /\ s[i] \in Whitespace THEN skip_ws(s, i + 1) ELSE i

\* the lowest index >= p from which only whitespace lies before index j:
\* where the lazy group (.*?) ends when the closing \s* FENCE matches at j
RECURSIVE back_ws(_, _, _)
back_ws(s, p, j) == IF j > p /\ s[j - 1] \in Whitespace THEN back_ws(s, p, j - 1) ELSE j

\* fence_match with re.DOTALL left out: the group cannot hold a newline
fence_match_no_dotall(s, opener, ignorecase, from) ==
    LET hay == IF ignorecase THEN lower(s) ELSE s
        i == find(hay, opener, from)
    IN  IF i = 0 THEN <<>>
        ELSE LET p == skip_ws(s, i + Len(opener))
                 j == find(s, FENCE, p)
             IN  IF j = 0 \/ contains(SubSeq(s, p, back_ws(s, p, j) - 1), <<"\n">>) THEN <<>>
                 ELSE <<SubSeq(s, p, back_ws(s, p, j) - 1), j + Len(FENCE)>>

\* One match of  opener \s* (.*?) \s* FENCE  (re.DOTALL) in s at or after index
\* from, with opener a literal (FENCE \o BASH or FENCE); ignorecase is
\* re.IGNORECASE. <<>> when there is no match, else <<group 1, index after the
\* match>>. The leftmost occurrence of opener decides: \s* takes the whole
\* whitespace run, the lazy group runs to the first FENCE after it and gives
\* the whitespace before that FENCE back to the second \s*.
fence_match(s, opener, ignorecase, from) ==
    LET hay == IF ignorecase THEN lower(s) ELSE s
        i == find(hay, opener, from)
    IN  IF i = 0 THEN <<>>
        ELSE LET p == skip_ws(s, i + Len(opener))
                 j == find(s, FENCE, p)
             IN  IF j = 0 THEN <<>>
                 ELSE <<SubSeq(s, p, back_ws(s, p, j) - 1), j + Len(FENCE)>>

\* re.findall(pattern, s, flags): group 1 of every non-overlapping match
RECURSIVE fence_findall(_, _, _, _)
fence_findall(s, opener, ignorecase, from) ==
    LET m == fence_match(s, opener, ignorecase, from)
    IN  IF m = <<>> THEN <<>>
        ELSE <<m[1]>> \o fence_findall(s, opener, ignorecase, m[2])

\* re.search(pattern, s, flags): <<>> (None) or <<group 1>>
fence_search(s, opener, ignorecase) ==
    LET m == fence_match(s, opener, ignorecase, 1)
    IN  IF m = <<>> THEN <<>> ELSE <<m[1]>>

(***************************************************************************)
(* CommandAI.extract_command (src/cmd_ai.py)                               *)
(***************************************************************************)

explan_prefixes ==
    {
     <<"t", "o", " ">>, <<"t", "h", "i", "s", " ">>, <<"y", "o", "u", " ">>,
     <<"t", "h", "e", " ">>, <<"h", "e", "r", "e">>, <<"u", "s", "e", " ">>,
     <<"i", "f", " ">>, <<"n", "o", "t", "e", ":">>, <<"n", "o", "t", "e", " ", "t", "h", "a", "t">>,
     <<"i", "t", " ">>
    }

command_indicators ==
    {
     <<" ", "|", " ">>, <<";">>, <<">">>, <<"<">>, <<"&", "&">>, <<"|", "|">>
    }

command_prefixes ==
    {
     <<"$">>, <<"s", "u", "d", "o">>, <<".", "/">>, <<"a", "p", "t">>,
     <<"g", "i", "t">>, <<"d", "o", "c", "k", "e", "r">>, <<"k", "u", "b", "e", "c", "t", "l">>, <<"f", "i", "n", "d">>,
     <<"g", "r", "e", "p">>, <<"l", "s">>, <<"c", "a", "t">>, <<"c", "d">>,
     <<"m", "k", "d", "i", "r">>, <<"r", "m">>, <<"c", "p">>, <<"m", "v">>,
     <<"d", "f">>, <<"d", "u">>, <<"p", "s">>
    }

\* a line longer than this that holds a space and no && or || is an explanation
LongLine == 120
\* more than this many '.' or ',' make a line an explanation
MaxPunct == 2

\* is_explanation with a line as long as LongLine counting as too long
is_explanation_at_limit(line) ==
    \/ \E p \in explan_prefixes : startswith(lower(line), p)
    \/ startswith(line, <<"#">>)
    \/ /\ Len(line) >= LongLine
       /\ contains(strip(line), <<" ">>)
       /\ ~(contains(line, <<"&", "&">>) \/ contains(line, <<"|", "|">>))
    \/ /\ count(line, ".") > MaxPunct \/ count(line, ",") > MaxPunct
       /\ ~(contains(line, <<"f", "i", "n", "d", " ">>)
            \/ contains(line, <<"g", "r", "e", "p", " ">>))

\* is_explanation after the four tests of the loop body, for a stripped line
is_explanation(line) ==
    \/ \E p \in explan_prefixes : startswith(lower(line), p)
    \/ startswith(line, <<"#">>)
    \/ /\ Len(line) > LongLine
       /\ contains(strip(line), <<" ">>)
       /\ ~(contains(line, <<"&", "&">>) \/ contains(line, <<"|", "|">>))
    \/ /\ count(line, ".") > MaxPunct \/ count(line, ",") > MaxPunct
       /\ ~(contains(line, <<"f", "i", "n", "d", " ">>)
            \/ contains(line, <<"g", "r", "e", "p", " ">>))

\* the test for a strong command indicator, for a stripped line
is_command(line) ==
    \/ \E ind \in command_indicators : contains(line, ind)
    \/ \E pref \in command_prefixes : startswith(line, pref)

\* processed_line with the strip() after line[1:] left out
processed_line_no_strip(line) ==
    IF startswith(line, <<"$">>) THEN slice1(line) ELSE line

processed_line(line) ==
    IF startswith(line, <<"$">>) THEN strip(slice1(line)) ELSE line

\* the stripped non-blank lines of the response, in order
\* stripped_lines that keeps the lines as they are
RECURSIVE stripped_lines_unstripped(_)
stripped_lines_unstripped(lines) ==
    IF lines = <<>> THEN <<>>
    ELSE (IF strip(Head(lines)) = <<>> THEN <<>> ELSE <<Head(lines)>>)
         \o stripped_lines_unstripped(Tail(lines))

RECURSIVE stripped_lines(_)
stripped_lines(lines) ==
    IF lines = <<>> THEN <<>>
    ELSE LET line == strip(Head(lines))
         IN  (IF line = <<>> THEN <<>> ELSE <<line>>) \o stripped_lines(Tail(lines))

\* command_lines that passes over the lines classified as explanations
RECURSIVE command_lines_skip_explanations(_)
command_lines_skip_explanations(ls) ==
    IF ls = <<>> THEN <<>>
    ELSE (IF is_command(Head(ls)) /\ ~is_explanation(Head(ls))
          THEN <<processed_line(Head(ls))>> ELSE <<>>)
         \o command_lines_skip_explanations(Tail(ls))

RECURSIVE command_lines(_)
command_lines(ls) ==
    IF ls = <<>> THEN <<>>
    ELSE (IF is_command(Head(ls)) THEN <<processed_line(Head(ls))>> ELSE <<>>)
         \o command_lines(Tail(ls))

RECURSIVE candidate_lines(_)
candidate_lines(ls) ==
    IF ls = <<>> THEN <<>>
    ELSE (IF ~is_explanation(Head(ls)) THEN <<Head(ls)>> ELSE <<>>)
         \o candidate_lines(Tail(ls))

\* line_fallback without its last two fallbacks and the guard on candidate_lines
line_fallback_unguarded(resp) ==
    LET ls == stripped_lines(split(resp))
        cl == command_lines(ls)
        cand == candidate_lines(ls)
    IN  IF cl # <<>> THEN index0(cl) ELSE index0(cand)

\* line_fallback with candidate_lines tried before command_lines
line_fallback_candidates_first(resp) ==
    LET ls == stripped_lines(split(resp))
        cl == command_lines(ls)
        cand == candidate_lines(ls)
    IN  IF cand # <<>> THEN index0(cand)
        ELSE IF cl # <<>> THEN index0(cl)
        ELSE IF ls # <<>> THEN index0(ls)
        ELSE strip(resp)

\* the line-by-line analysis: everything after the code-block attempt
line_fallback(resp) ==
    LET ls == stripped_lines(split(resp))
        cl == command_lines(ls)
        cand == candidate_lines(ls)
    IN  IF cl # <<>> THEN index0(cl)
        ELSE IF cand # <<>> THEN index0(cand)
        ELSE IF ls # <<>> THEN index0(ls)
        ELSE strip(resp)

\* code_block that returns the first two matches, one above the other
code_block_joined(resp) ==
    IF contains(resp, FENCE)
    THEN LET bash_matches == fence_findall(resp, FENCE \o BASH, FALSE, 1)
             generic_matches == fence_findall(resp, FENCE, FALSE, 1)
             glue(m) == IF Len(m) > 1 THEN m[1] \o <<"\n">> \o m[2] ELSE m[1]
         IN  IF bash_matches # <<>> THEN <<strip(glue(bash_matches))>>
             ELSE IF generic_matches # <<>> THEN <<strip(glue(generic_matches))>>
             ELSE <<>>
    ELSE <<>>

\* the code-block attempt: <<>> when it extracts nothing, else <<the command>>
code_block(resp) ==
    IF contains(resp, FENCE)
    THEN LET bash_matches == fence_findall(resp, FENCE \o BASH, FALSE, 1)
             generic_matches == fence_findall(resp, FENCE, FALSE, 1)
         IN  IF bash_matches # <<>> THEN <<strip(index0(bash_matches))>>
             ELSE IF generic_matches # <<>> THEN <<strip(index0(generic_matches))>>
             ELSE <<>>
    ELSE <<>>

extract_command(resp) ==
    LET block == code_block(resp)
    IN  IF block # <<>> THEN block[1] ELSE line_fallback(resp)

(***************************************************************************)
(* CLAI.extract_command (src/build/lib/cmd_ai.py)                          *)
(***************************************************************************)

\* lines = [line for line in response.split('\n') if line.strip()]
RECURSIVE nonblank_lines(_)
nonblank_lines(lines) ==
    IF lines = <<>> THEN <<>>
    ELSE (IF strip(Head(lines)) = <<>> THEN <<>> ELSE <<Head(lines)>>)
         \o nonblank_lines(Tail(lines))

\* the final '$' stripping with the lstrip() after extracted_text[1:] left out
CLAI_dollar_strip_bare(extracted_text) ==
    IF startswith(extracted_text, <<"$">>) THEN slice1(extracted_text)
    ELSE extracted_text

\* the final '$' stripping
CLAI_dollar_strip(extracted_text) ==
    IF startswith(extracted_text, <<"$">>) THEN lstrip(slice1(extracted_text))
    ELSE extracted_text

\* CLAI_fallback taking the whole response when it has several lines
CLAI_fallback_whole(resp) ==
    LET lines == nonblank_lines(split(resp))
        extracted_text ==
            IF Len(lines) = 1 THEN strip(index0(lines))
            ELSE strip(resp)
    IN  CLAI_dollar_strip(extracted_text)

\* CLAI_fallback that leaves a response without non-blank lines as it is
CLAI_fallback_unstripped(resp) ==
    LET lines == nonblank_lines(split(resp))
        extracted_text ==
            IF Len(lines) = 1 THEN strip(index0(lines))
            ELSE IF lines # <<>> THEN strip(index0(lines))
            ELSE resp
    IN  CLAI_dollar_strip(extracted_text)

\* the fallback strategy with the final '$' stripping
CLAI_fallback(resp) ==
    LET lines == nonblank_lines(split(resp))
        extracted_text ==
            IF Len(lines) = 1 THEN strip(index0(lines))
            ELSE IF lines # <<>> THEN strip(index0(lines))
            ELSE strip(resp)
    IN  CLAI_dollar_strip(extracted_text)

\* the two code-block searches: <<>> when neither matches, else <<the command>>
CLAI_code_block(resp) ==
    LET bash_match == fence_search(resp, FENCE \o BASH, TRUE)
        generic_match == fence_search(resp, FENCE, FALSE)
    IN  IF bash_match # <<>> THEN <<strip(bash_match[1])>>
        ELSE IF generic_match # <<>> THEN <<strip(generic_match[1])>>
        ELSE <<>>

CLAI_extract_command(resp) ==
    LET block == CLAI_code_block(resp)
    IN  IF block # <<>> THEN block[1] ELSE CLAI_fallback(resp)

\* what CommandAI.extract_command prints on the console: nothing
extract_command_prints(resp) == <<>>

\* what CLAI.extract_command prints on the console: a warning when no code
\* block matched and the response has several non-blank lines
CLAI_extract_command_prints(resp) ==
    IF CLAI_code_block(resp) = <<>> /\ Len(nonblank_lines(split(resp))) > 1
    THEN <<"Warning: LLM response had multiple lines without a code block.">>
    ELSE <<>>

(***************************************************************************)
(* The state of an assistant object: configuration and history             *)
(***************************************************************************)

\* the value of a variable that holds nothing yet
None == <<"None">>

DEFAULT_CONFIG ==
    [model |-> "phi4:latest",
     url |-> "http://localhost:11434/api",
     type |-> "ollama",
     prompt_prefix |-> "You are a helpful assistant",
     auto_run_prompt |-> TRUE]

\* dict.get(key, default)
get(d, key, default) == IF key \in DOMAIN d THEN d[key] ELSE default

\* d[key] = value
set(d, key, value) ==
    [k \in DOMAIN d \cup {key} |-> IF k = key THEN value ELSE d[k]]

\* the state of the session variables while no session runs
NoSession ==
    /\ handler = "none"
    /\ config = DEFAULT_CONFIG
    /\ default_config = DEFAULT_CONFIG
    /\ aliased = FALSE
    /\ config_file = DEFAULT_CONFIG
    /\ history = <<>>
    /\ history_file = <<>>
    /\ command = None
    /\ chosen = "unset"
    /\ entered = "unset"
    /\ written = <<>>
    /\ messages = <<>>
    /\ outcome = None
    /\ shown = <<>>
    /\ typed = "unset"
    /\ run_prompt = "unset"
    /\ executed = <<>>
    /\ result = "none"

(***************************************************************************)
(* The responses extract_command is applied to                             *)
(***************************************************************************)

\* a response has at most this many segments, joined by newlines
MaxSegs == 4

ls_la == <<"l", "s", " ", "-", "l", "a">>
dollar_ls == <<"$", " ", "l", "s">>
pwd_padded == <<" ", "p", "w", "d", " ">>

\* fence lines with and without a tag and lines to stand inside or around a
\* block
FenceSegments ==
    {
     FENCE,
     FENCE \o BASH,
     FENCE \o <<"B", "A", "S", "H">>,
     FENCE \o <<"p", "y">>,
     FENCE \o BASH \o <<"r", "c">>,
     ls_la,
     dollar_ls,
     pwd_padded
    }

\* lines of a response that holds no fence: commands, with and without a
\* leading $, an explanation, a padded plain word, a line of whitespace
LineSegments ==
    {
     ls_la,
     dollar_ls,
     <<"$", "l", "s">>,
     <<"T", "o", " ", "r", "u", "n", ":">>,
     pwd_padded,
     <<" ", "\t">>
    }

\* lines for the line heuristics: an explanation that carries a command
\* signal, an explanation, a plain word, a command
HeuristicSegments ==
    {
     <<"t", "o", " ", "l", "s", ">", "x">>,
     <<"i", "t", " ", "i", "s">>,
     <<"p", "w", "d">>,
     ls_la
    }

RECURSIVE join(_)
join(segs) ==
    IF segs = <<>> THEN <<>>
    ELSE IF Len(segs) = 1 THEN segs[1]
    ELSE segs[1] \o <<"\n">> \o join(Tail(segs))

\* resp is at most MaxSegs segments of one kind, joined by newlines
IsResponse(resp) ==
    \E segments \in {FenceSegments, LineSegments, HeuristicSegments} :
        \E n \in 0..MaxSegs :
            \E t \in [1..n -> segments] : resp = join(t)

(***************************************************************************)
(* extract_command applied to one response, by either revision             *)
(***************************************************************************)

InitExtract ==
    /\ impl = "none"
    /\ pc = "start"
    /\ IsResponse(response)
    /\ cmd = None
    /\ printed = <<>>
    /\ frames = <<>>
    /\ NoSession

CommandAI_extract ==
    /\ pc = "start"
    /\ impl' = "CommandAI"
    /\ cmd' = extract_command(response)
    /\ printed' = printed \o extract_command_prints(response)
    /\ pc' = "done"
    /\ UNCHANGED <<response, frames, session_vars>>

CLAI_extract ==
    /\ pc = "start"
    /\ impl' = "CLAI"
    /\ cmd' = CLAI_extract_command(response)
    /\ printed' = printed \o CLAI_extract_command_prints(response)
    /\ pc' = "done"
    /\ UNCHANGED <<response, frames, session_vars>>

NextExtract == CommandAI_extract \/ CLAI_extract

SpecExtract == InitExtract /\ [][NextExtract]_vars

(***************************************************************************)
(* A session: process_command called again and again, or one_shot_mode     *)
(* called once                                                             *)
(***************************************************************************)

\* self.history grows to at most this many exchanges in a session
MaxHistory == 2

\* save_history writes the last max_history exchanges
max_history == 20

KeyError == <<"KeyError">>

HELP == <<"!", "h", "e", "l", "p">>
CONFIG == <<"!", "c", "o", "n", "f", "i", "g">>
HISTORY == <<"!", "h", "i", "s", "t", "o", "r", "y">>
CLEAR == <<"!", "c", "l", "e", "a", "r">>
QUIT == <<"!", "q", "u", "i", "t">>

list_files == <<"l", "i", "s", "t">>

\* what the user types at the cmd-ai> prompt: nothing, the commands, a command
\* with whitespace around it, a question
Inputs ==
    {<<>>, <<" ">>, HELP, CONFIG, HISTORY, CLEAR, QUIT,
     <<" ">> \o QUIT \o <<"\n">>, list_files}

\* the query on the command line of a one-shot run
Queries == {list_files, QUIT}

only_ollama ==
    <<"O", "n", "l", "y", " ", "O", "l", "l", "a", "m", "a", " ", "i", "s",
      " ", "s", "u", "p", "p", "o", "r", "t", "e", "d", " ", "c", "u", "r",
      "r", "e", "n", "t", "l", "y", ".">>

no_response ==
    <<"N", "o", " ", "r", "e", "s", "p", "o", "n", "s", "e">>

reply_block == FENCE \o BASH \o <<"\n">> \o ls_la \o <<"\n">> \o FENCE

reply_lines == <<"T", "o", " ", "r", "u", "n", ":", "\n">> \o dollar_ls

\* How a request went: the server answered with a status other than 200 and a
\* body, the client library raised aiohttp.ClientError, something raised
\* another exception, the server answered 200 with a message content, the
\* server answered 200 without a message content.
http_error(status, body) == [kind |-> "status", status |-> status, text |-> body]
client_error(text) == [kind |-> "ClientError", status |-> 0, text |-> text]
other_exception(text) == [kind |-> "Exception", status |-> 0, text |-> text]
content(text) == [kind |-> "content", status |-> 200, text |-> text]
no_content == [kind |-> "no content", status |-> 200, text |-> <<>>]

network_error ==
    <<"N", "e", "t", "w", "o", "r", "k", " ", "E", "r", "r", "o", "r">>

\* how the requests of a session go
Replies ==
    {content(reply_block), content(reply_lines), no_content,
     client_error(network_error)}

error_http ==
    <<"E", "r", "r", "o", "r", ":", " ", "H", "T", "T", "P", " ">>

connection_error ==
    <<"C", "o", "n", "n", "e", "c", "t", "i", "o", "n", " ", "e", "r", "r",
      "o", "r", ":", " ">>

error_prefix ==
    <<"E", "r", "r", "o", "r", ":", " ">>

\* str(e) of the KeyError for the key url
url_KeyError == <<"'", "u", "r", "l", "'">>

Digits == <<"0", "1", "2", "3", "4", "5", "6", "7", "8", "9">>

\* str(n) of a natural number
RECURSIVE str_int(_)
str_int(n) ==
    IF n < 10 THEN <<Digits[n + 1]>>
    ELSE str_int(n \div 10) \o <<Digits[(n % 10) + 1]>>

\* what load_config found: the defaults, a file that turns the prompt off, a
\* file without the auto_run_prompt key, a file with two keys only, a file
\* that names another backend
InitialConfigs ==
    {
     DEFAULT_CONFIG,
     [DEFAULT_CONFIG EXCEPT !.auto_run_prompt = FALSE],
     [model |-> "phi4:latest", url |-> "http://localhost:11434/api",
      type |-> "ollama", prompt_prefix |-> "You are a helpful assistant"],
     [model |-> "test_model", url |-> "http://test.url"],
     [DEFAULT_CONFIG EXCEPT !.type = "openai"]
    }

\* Prompt.ask(..., default=default): the text typed, the default for an empty
\* line
Prompt_ask(text, default) == IF text = "" THEN default ELSE text

\* the request with an exception that is no client error left uncaught
request_uncaught(reply) ==
    CASE reply.kind = "ClientError" -> connection_error \o reply.text
      [] reply.kind = "Exception" -> <<"Exception">>
      [] reply.kind = "status" ->
             error_http \o str_int(reply.status) \o <<" ", "-", " ">> \o reply.text
      [] reply.kind = "no content" -> no_response
      [] reply.kind = "content" ->
             IF impl = "CLAI" /\ reply.text = <<>> THEN no_response
             ELSE reply.text

\* the try block of query_llm: what it returns for each way the request went
request(reply) ==
    CASE reply.kind = "ClientError" -> connection_error \o reply.text
      [] reply.kind = "Exception" -> error_prefix \o reply.text
      [] reply.kind = "status" ->
             error_http \o str_int(reply.status) \o <<" ", "-", " ">> \o reply.text
      [] reply.kind = "no content" -> no_response
      [] reply.kind = "content" ->
             IF impl = "CLAI" /\ reply.text = <<>> THEN no_response
             ELSE reply.text

\* the entry of the query numbered i
entry(i) ==
    [query |-> <<"q">> \o str_int(i), response |-> <<"r">> \o str_int(i)]

\* the history of the first n queries
entries(n) == [i \in 1..n |-> entry(i - 1)]

\* query_llm sends the last context_size exchanges along
context_size == 5

\* the whole history as context
recent_all(h) == h

\* self.history[-5:]
recent(h) == IF Len(h) > context_size
             THEN SubSeq(h, Len(h) - context_size + 1, Len(h))
             ELSE h

\* the user and assistant messages of the exchanges
RECURSIVE exchange_messages(_)
exchange_messages(items) ==
    IF items = <<>> THEN <<>>
    ELSE <<[role |-> "user", content |-> Head(items).query],
           [role |-> "assistant", content |-> Head(items).response]>>
         \o exchange_messages(Tail(items))

\* the message list query_llm builds: the system message, the context, the
\* prompt; nothing when the configuration lacks prompt_prefix
build_messages(prompt) ==
    IF "prompt_prefix" \notin DOMAIN config THEN <<>>
    ELSE <<[role |-> "system", content |-> config["prompt_prefix"]]>>
         \o exchange_messages(recent(history))
         \o <<[role |-> "user", content |-> prompt]>>

\* query_llm: the KeyError of a key the configuration lacks outside the try
\* block, the fixed text for another backend, the error text for the key url
\* looked up inside the try block, or what the request gives
query_llm(prompt, reply) ==
    IF "prompt_prefix" \notin DOMAIN config \/ "type" \notin DOMAIN config
    THEN KeyError
    ELSE IF config["type"] = "ollama"
         THEN IF "model" \notin DOMAIN config THEN KeyError
              ELSE IF "url" \notin DOMAIN config THEN error_prefix \o url_KeyError
              ELSE request(reply)
         ELSE only_ollama

\* save_history keeping the first entries of a long history
history_to_save_head(h) ==
    IF Len(h) > max_history
    THEN SubSeq(h, 1, max_history)
    ELSE h

\* save_history: what goes to HISTORY_FILE
history_to_save(h) ==
    IF Len(h) > max_history
    THEN SubSeq(h, Len(h) - max_history + 1, Len(h))
    ELSE h

\* save_history that writes nothing
save_history_skipped(h, write_ok) == history_file

\* HISTORY_FILE after save_history, whose write succeeds or fails
save_history(h, write_ok) == IF write_ok THEN history_to_save(h) ELSE history_file

\* save_history of CommandAI lets the error of a failed write out, that of
\* CLAI prints it
save_history_raises(write_ok) == ~write_ok /\ impl = "CommandAI"

save_history_prints(write_ok) ==
    IF ~write_ok /\ impl = "CLAI" THEN <<"Error saving history">> ELSE <<>>

\* the keys configure reads before it asks anything
configure_reads == {"model", "url", "prompt_prefix"}

\* the key a choice of the menu asks a new value for
asked == [c \in {"1", "2", "3"} |->
             CASE c = "1" -> "model" [] c = "2" -> "url" [] c = "3" -> "prompt_prefix"]

\* option 4 with a missing key counting as disabled
toggle_missing_off(c) ==
    set(c, "auto_run_prompt", ~get(c, "auto_run_prompt", FALSE))

\* option 4: auto_run_prompt becomes the opposite of what
\* self.config.get("auto_run_prompt", True) gives
toggle(c) ==
    set(c, "auto_run_prompt", ~get(c, "auto_run_prompt", TRUE))

\* what configure prints after option 4
toggle_prints(c) ==
    IF get(c, "auto_run_prompt", TRUE)
    THEN <<"Run command prompt disabled.">>
    ELSE <<"Run command prompt enabled.">>

\* What configure leaves: the configuration, CONFIG_FILE, whether an
\* exception left the call, what the two prompts returned, what was dumped to
\* CONFIG_FILE and what was printed after the menu.
configured(c, f, raised, choice_got, value_got, dumped, prints) ==
    [config |-> c, config_file |-> f, raised |-> raised, choice |-> choice_got,
     value |-> value_got, written |-> dumped, prints |-> prints]

\* configure of CommandAI
CommandAI_configure(choice_text, value_text, write_ok) ==
    IF ~(configure_reads \subseteq DOMAIN config)
    THEN configured(config, config_file, TRUE, "unset", "unset", <<>>, <<>>)
    ELSE LET got == Prompt_ask(choice_text, "5")
             new == IF got \in DOMAIN asked
                    THEN Prompt_ask(value_text, config[asked[got]])
                    ELSE "unset"
             changed ==
                 IF got \in DOMAIN asked
                 THEN IF new # "" THEN set(config, asked[got], new) ELSE config
                 ELSE IF got = "4" THEN toggle(config) ELSE config
             prints ==
                 IF got = "4" THEN toggle_prints(config)
                 ELSE IF got \in {"1", "2", "3", "5"} THEN <<>>
                 ELSE <<"Invalid choice">>
         IN  IF write_ok
             THEN configured(changed, changed, FALSE, got, new, <<changed>>,
                             prints \o <<"Configuration saved">>)
             ELSE configured(changed, config_file, TRUE, got, new, <<>>, prints)

\* configure of CLAI
CLAI_configure(choice_text, value_text, write_ok) ==
    IF ~(configure_reads \subseteq DOMAIN config)
    THEN configured(config, config_file, TRUE, "unset", "unset", <<>>, <<>>)
    ELSE LET got == Prompt_ask(choice_text, "5")
             new == IF got \in DOMAIN asked
                    THEN Prompt_ask(value_text, config[asked[got]])
                    ELSE "unset"
             changed ==
                 IF got \in DOMAIN asked
                 THEN IF new # config[asked[got]]
                      THEN set(config, asked[got], new) ELSE config
                 ELSE IF got = "4" THEN toggle(config) ELSE config
             made_change == got = "4" \/ changed # config
             prints == IF got = "4" THEN toggle_prints(config) ELSE <<>>
         IN  IF got \notin {"1", "2", "3", "4", "5"}
             THEN configured(config, config_file, FALSE, got, new, <<>>,
                             <<"Invalid choice. Configuration not saved.">>)
             ELSE IF made_change \/ got = "5"
                  THEN IF write_ok
                       THEN configured(changed, changed, FALSE, got, new,
                                       <<changed>>,
                                       prints \o <<"Configuration saved.">>)
                       ELSE configured(changed, config_file, FALSE, got, new,
                                       <<>>,
                                       prints \o <<"Error saving configuration">>)
                  ELSE configured(changed, config_file, FALSE, got, new, <<>>,
                                  <<"No changes made to configuration.">>)

\* self.configure of the revision that runs
configure(choice_text, value_text, write_ok) ==
    IF impl = "CommandAI"
    THEN CommandAI_configure(choice_text, value_text, write_ok)
    ELSE CLAI_configure(choice_text, value_text, write_ok)

\* what the user types in the configuration menu during a session: an empty
\* line, the toggle, a number that is not on the menu
Choices == {"", "4", "6"}

\* what the user types at the second prompt of the menu
Values == {"", "new"}

\* the answer lets the command run
should_run_always(answer) == TRUE

\* run_prompt.lower() == 'y', the answer being a str of one character
should_run(answer) == lower(<<answer>>) = <<"y">>

\* run_command hands the command to the shell
run_command(c) == Append(executed, c)

\* self.extract_command of the revision that runs
self_extract_command(resp) ==
    IF impl = "CommandAI" THEN extract_command(resp) ELSE CLAI_extract_command(resp)

\* what that call prints
self_extract_command_prints(resp) ==
    IF impl = "CommandAI" THEN extract_command_prints(resp)
    ELSE CLAI_extract_command_prints(resp)

\* the call returns value, or an exception leaves it
Leave(value) ==
    /\ result' = value
    /\ pc' = IF handler = "process_command" THEN "returned" ELSE "exit"

Calling == pc = "idle" /\ handler = "process_command"

Init ==
    /\ impl \in Impls
    /\ handler \in {"process_command", "one_shot_mode"}
    /\ pc = "idle"
    /\ config \in InitialConfigs
    /\ default_config = DEFAULT_CONFIG
    /\ aliased \in (IF config = DEFAULT_CONFIG THEN BOOLEAN ELSE {FALSE})
    /\ config_file = config
    /\ history = <<>>
    /\ history_file = <<>>
    /\ command = None
    /\ chosen = "unset"
    /\ entered = "unset"
    /\ written = <<>>
    /\ messages = <<>>
    /\ outcome = None
    /\ response = <<>>
    /\ cmd = None
    /\ printed = <<>>
    /\ frames = <<>>
    /\ shown = <<>>
    /\ typed = "unset"
    /\ run_prompt = "unset"
    /\ executed = <<>>
    /\ result = "none"

\* process_command on a blank line
Blank ==
    /\ Calling
    /\ \E c \in Inputs : strip(c) = <<>> /\ command' = strip(c)
    /\ Leave(IF impl = "CommandAI" THEN "None" ELSE "True")
    /\ UNCHANGED <<impl, default_config, aliased, chosen, entered, written, messages,
                   printed, frames, outcome, handler, config, config_file,
                   history, history_file,
                   response, cmd, shown, typed, run_prompt, executed>>

\* process_command on !help: show_help prints
Help ==
    /\ Calling
    /\ \E c \in Inputs : strip(c) = HELP /\ command' = strip(c)
    /\ Leave("True")
    /\ UNCHANGED <<impl, default_config, aliased, chosen, entered, written, messages,
                   printed, frames, outcome, handler, config, config_file,
                   history, history_file,
                   response, cmd, shown, typed, run_prompt, executed>>

\* process_command on !config: configure
Config ==
    /\ Calling
    /\ \E c \in Inputs : strip(c) = CONFIG /\ command' = strip(c)
    /\ \E choice_text \in Choices, value_text \in Values, write_ok \in BOOLEAN :
           LET after == configure(choice_text, value_text, write_ok)
           IN  /\ config' = after.config
               /\ default_config' = IF aliased THEN after.config ELSE default_config
               /\ config_file' = after.config_file
               /\ chosen' = after.choice
               /\ entered' = after.value
               /\ written' = after.written
               /\ printed' = printed \o after.prints
               /\ Leave(IF after.raised THEN "raised" ELSE "True")
    /\ UNCHANGED <<impl, aliased, messages, frames, outcome, handler, history,
                   history_file, response, cmd, shown,
                   typed, run_prompt, executed>>

\* process_command on !history: show_history prints
History ==
    /\ Calling
    /\ \E c \in Inputs : strip(c) = HISTORY /\ command' = strip(c)
    /\ Leave("True")
    /\ UNCHANGED <<impl, default_config, aliased, chosen, entered, written, messages,
                   printed, frames, outcome, handler, config, config_file,
                   history, history_file,
                   response, cmd, shown, typed, run_prompt, executed>>

\* process_command on !clear
Clear ==
    /\ Calling
    /\ \E c \in Inputs : strip(c) = CLEAR /\ command' = strip(c)
    /\ history' = <<>>
    /\ \E write_ok \in BOOLEAN :
           /\ history_file' = save_history(history', write_ok)
           /\ printed' = printed \o save_history_prints(write_ok)
           /\ Leave(IF save_history_raises(write_ok) THEN "raised" ELSE "True")
    /\ UNCHANGED <<impl, default_config, aliased, chosen, entered, written, messages,
                   frames, outcome, handler, config, config_file,
                   response, cmd, shown,
                   typed, run_prompt, executed>>

\* process_command on !quit
Quit ==
    /\ Calling
    /\ \E c \in Inputs : strip(c) = QUIT /\ command' = strip(c)
    /\ Leave("False")
    /\ UNCHANGED <<impl, default_config, aliased, chosen, entered, written, messages,
                   printed, frames, outcome, handler, config, config_file,
                   history, history_file,
                   response, cmd, shown, typed, run_prompt, executed>>

\* process_command on anything else: up to the await of query_llm
Query ==
    /\ Calling
    /\ Len(history) < MaxHistory
    /\ \E c \in Inputs :
           /\ strip(c) \notin {<<>>, HELP, CONFIG, HISTORY, CLEAR, QUIT}
           /\ command' = strip(c)
    /\ pc' = "query_llm"
    /\ result' = "none"
    /\ UNCHANGED <<impl, default_config, aliased, chosen, entered, written, messages,
                   printed, frames, outcome, handler, config, config_file,
                   history, history_file,
                   response, cmd, shown, typed, run_prompt, executed>>

\* one_shot_mode: up to the await of query_llm
OneShot ==
    /\ pc = "idle"
    /\ handler = "one_shot_mode"
    /\ \E query \in Queries : command' = query
    /\ pc' = "query_llm"
    /\ result' = "none"
    /\ UNCHANGED <<impl, default_config, aliased, chosen, entered, written, messages,
                   printed, frames, outcome, handler, config, config_file,
                   history, history_file,
                   response, cmd, shown, typed, run_prompt, executed>>

\* query_llm has returned: the rest of the handler up to the Execute prompt
Respond ==
    /\ pc = "query_llm"
    /\ \E reply \in Replies, write_ok \in BOOLEAN :
           LET r == query_llm(command, reply)
           IN  /\ outcome' = reply
               /\ messages' = build_messages(command)
               /\ IF r = KeyError
                  THEN /\ Leave("raised")
                       /\ UNCHANGED <<response, history, history_file, cmd, printed,
                                      shown>>
                  ELSE /\ response' = r
                       /\ history' = Append(history, [query |-> command, response |-> r])
                       /\ history_file' = save_history(history', write_ok)
                       /\ IF save_history_raises(write_ok)
                          THEN /\ Leave("raised")
                               /\ UNCHANGED <<cmd, printed, shown>>
                          ELSE IF get(config, "auto_run_prompt", TRUE)
                          THEN /\ cmd' = self_extract_command(r)
                               /\ printed' = printed \o save_history_prints(write_ok)
                                                 \o self_extract_command_prints(r)
                               /\ IF cmd' = IndexError
                                  THEN /\ Leave("raised")
                                       /\ UNCHANGED shown
                                  ELSE /\ shown' = <<cmd'>>
                                       /\ pc' = "Execute?"
                                       /\ UNCHANGED result
                          ELSE /\ Leave(IF handler = "process_command"
                                        THEN "True" ELSE "None")
                               /\ printed' = printed \o save_history_prints(write_ok)
                               /\ UNCHANGED <<cmd, shown>>
    /\ UNCHANGED <<impl, default_config, aliased, chosen, entered, written,
                   frames, handler, config, config_file, command, typed,
                   run_prompt, executed>>

\* the user answers the Execute prompt, which takes y, n or an empty line
Execute ==
    /\ pc = "Execute?"
    /\ \E text \in {"", "y", "n"} :
           /\ typed' = text
           /\ run_prompt' = Prompt_ask(text, "n")
    /\ executed' = IF should_run(run_prompt') THEN run_command(cmd) ELSE executed
    /\ Leave(IF handler = "process_command" THEN "True" ELSE "None")
    /\ UNCHANGED <<impl, default_config, aliased, chosen, entered, written, messages,
                   printed, frames, outcome, handler, config, config_file,
                   history, history_file,
                   command, response, cmd, shown>>

\* the caller has the result of process_command and the locals of the call
\* are gone
Return ==
    /\ pc = "returned"
    /\ pc' = "idle"
    /\ command' = None
    /\ outcome' = None
    /\ response' = <<>>
    /\ cmd' = None
    /\ shown' = <<>>
    /\ typed' = "unset"
    /\ run_prompt' = "unset"
    /\ executed' = <<>>
    /\ result' = "none"
    /\ printed' = <<>>
    /\ chosen' = "unset"
    /\ entered' = "unset"
    /\ written' = <<>>
    /\ messages' = <<>>
    /\ UNCHANGED <<impl, default_config, aliased, frames, handler, config,
                   config_file, history, history_file>>

Next ==
    \/ Blank
    \/ Help
    \/ Config
    \/ History
    \/ Clear
    \/ Quit
    \/ Query
    \/ OneShot
    \/ Respond
    \/ Execute
    \/ Return

Spec == Init /\ [][Next]_vars

(***************************************************************************)
(* query_llm called on an object, over the ways the request can go         *)
(***************************************************************************)

\* the longest history query_llm is called with
MaxPast == 7

internal_server_error ==
    <<"I", "n", "t", "e", "r", "n", "a", "l", " ", "S", "e", "r", "v", "e",
      "r", " ", "E", "r", "r", "o", "r">>

generic_exception ==
    <<"G", "e", "n", "e", "r", "i", "c", " ", "E", "x", "c", "e", "p", "t",
      "i", "o", "n">>

\* the ways the request can go: the error texts of the tests and the empty
\* text, two statuses, a content with a command, an empty content, no content
Outcomes ==
    {http_error(st, body) : st \in {404, 500}, body \in {<<>>, internal_server_error}}
    \cup {client_error(t) : t \in {<<>>, network_error}}
    \cup {other_exception(t) : t \in {<<>>, generic_exception}}
    \cup {content(t) : t \in {reply_block, reply_lines, <<>>}}
    \cup {no_content}

\* the configurations of the session and one without the key url
QueryConfigs ==
    InitialConfigs
    \cup {[model |-> "phi4:latest", type |-> "ollama",
           prompt_prefix |-> "You are a helpful assistant",
           auto_run_prompt |-> TRUE]}

InitQuery ==
    /\ impl \in Impls
    /\ handler = "query_llm"
    /\ pc = "query_llm"
    /\ config \in QueryConfigs
    /\ default_config = DEFAULT_CONFIG
    /\ aliased = FALSE
    /\ config_file = config
    /\ \E n \in 0..MaxPast : history = entries(n)
    /\ history_file = <<>>
    /\ command = list_files
    /\ chosen = "unset"
    /\ entered = "unset"
    /\ written = <<>>
    /\ messages = <<>>
    /\ outcome = None
    /\ response = <<>>
    /\ cmd = None
    /\ printed = <<>>
    /\ frames = <<>>
    /\ shown = <<>>
    /\ typed = "unset"
    /\ run_prompt = "unset"
    /\ executed = <<>>
    /\ result = "none"

\* one call of query_llm: it returns a string or raises the KeyError
QueryLLM ==
    /\ pc = "query_llm"
    /\ \E reply \in Outcomes :
           LET r == query_llm(command, reply)
           IN  /\ outcome' = reply
               /\ messages' = build_messages(command)
               /\ IF r = KeyError
                  THEN /\ result' = "raised"
                       /\ UNCHANGED response
                  ELSE /\ response' = r
                       /\ result' = "returned"
    /\ pc' = "answered"
    /\ UNCHANGED <<impl, default_config, aliased, chosen, entered, written,
                   cmd, printed, frames, handler, config, config_file,
                   history, history_file, command, shown, typed, run_prompt,
                   executed>>

NextQuery == QueryLLM

SpecQuery == InitQuery /\ [][NextQuery]_vars

(***************************************************************************)
(* __init__: load_config, then load_history, over the states the two files *)
(* can be in.  Here a value carries its JSON type, since the loaders may   *)
(* return whatever the file holds: config, history and the contents of the *)
(* files are such values.                                                  *)
(***************************************************************************)

json_object(d) == [type |-> "object", fields |-> d, items |-> <<>>, text |-> <<>>]
json_array(l) == [type |-> "array", fields |-> <<>>, items |-> l, text |-> <<>>]
json_string(t) == [type |-> "string", fields |-> <<>>, items |-> <<>>, text |-> t]

\* no value: the attribute is not set, the file holds nothing that parses
nothing == [type |-> "none", fields |-> <<>>, items |-> <<>>, text |-> <<>>]

\* A file: missing, or one whose open or read raises PermissionError or
\* another OSError, or one whose text json.load rejects, or one that holds a
\* JSON value.
file(status, value) == [status |-> status, content |-> value]

FileFaults == {"PermissionError", "OSError", "JSONDecodeError"}

q1 == <<"q", "1">>

r1 == <<"r", "1">>

not_a_dict == <<"n", "o", "t", " ", "a", " ", "d", "i", "c", "t">>

not_a_list == <<"n", "o", "t", " ", "a", " ", "l", "i", "s", "t">>

test_config == [model |-> "test_model", url |-> "http://test.url"]

ConfigFiles ==
    {file("missing", nothing)}
    \cup {file(fault, nothing) : fault \in FileFaults}
    \cup {file("ok", v) : v \in {json_object(DEFAULT_CONFIG),
                                 json_object(test_config),
                                 json_string(not_a_dict)}}

HistoryFiles ==
    {file("missing", nothing)}
    \cup {file(fault, nothing) : fault \in FileFaults}
    \cup {file("ok", v) : v \in {json_array(<<>>),
                                 json_array(<<[query |-> q1, response |-> r1]>>),
                                 json_string(not_a_list)}}

\* what a loader gives: the value returned (nothing when it raises), whether
\* it raises, what it prints, the file afterwards; the value is the object
\* DEFAULT_CONFIG itself whenever it is not the content of the file
loaded(value, raises, prints, f) ==
    [value |-> value, raises |-> raises, prints |-> prints, file |-> f]

CommandAI_load_config(f, write_ok) ==
    IF f.status # "missing"
    THEN IF f.status = "ok"
         THEN loaded(f.content, FALSE, <<>>, f)
         ELSE loaded(json_object(DEFAULT_CONFIG), FALSE,
                     <<"Error loading config">>, f)
    ELSE IF write_ok
         THEN loaded(json_object(DEFAULT_CONFIG), FALSE, <<>>,
                     file("ok", json_object(DEFAULT_CONFIG)))
         ELSE loaded(nothing, TRUE, <<>>, f)

CLAI_load_config(f, write_ok) ==
    IF f.status # "missing"
    THEN IF f.status = "ok"
         THEN IF f.content.type # "object"
              THEN loaded(json_object(DEFAULT_CONFIG), FALSE,
                          <<"Error: Config file does not contain a valid JSON object">>,
                          f)
              ELSE loaded(f.content, FALSE, <<>>, f)
         ELSE loaded(json_object(DEFAULT_CONFIG), FALSE,
                     <<CASE f.status = "JSONDecodeError" ->
                                "Error decoding config file"
                         [] f.status = "PermissionError" ->
                                "Permission error reading config file"
                         [] OTHER -> "Unexpected error loading config file">>,
                     f)
    ELSE IF write_ok
         THEN loaded(json_object(DEFAULT_CONFIG), FALSE,
                     <<"Config file not found">>,
                     file("ok", json_object(DEFAULT_CONFIG)))
         ELSE loaded(json_object(DEFAULT_CONFIG), FALSE,
                     <<"Config file not found",
                       "error writing default config file">>,
                     f)

load_config(f, write_ok) ==
    IF impl = "CommandAI" THEN CommandAI_load_config(f, write_ok)
    ELSE CLAI_load_config(f, write_ok)

CommandAI_load_history(f) ==
    IF f.status # "missing"
    THEN IF f.status = "ok"
         THEN loaded(f.content, FALSE, <<>>, f)
         ELSE loaded(json_array(<<>>), FALSE, <<>>, f)
    ELSE loaded(json_array(<<>>), FALSE, <<>>, f)

CLAI_load_history(f) ==
    IF f.status # "missing"
    THEN IF f.status = "ok"
         THEN IF f.content.type # "array"
              THEN loaded(json_array(<<>>), FALSE,
                          <<"Warning: History file does not contain a valid JSON list">>,
                          f)
              ELSE loaded(f.content, FALSE, <<>>, f)
         ELSE loaded(json_array(<<>>), FALSE,
                     <<CASE f.status = "JSONDecodeError" ->
                                "Warning: Error decoding history file"
                         [] f.status = "PermissionError" ->
                                "Warning: Permission error reading history file"
                         [] OTHER ->
                                "Warning: Unexpected error loading history file">>,
                     f)
    ELSE loaded(json_array(<<>>), FALSE, <<>>, f)

load_history(f) ==
    IF impl = "CommandAI" THEN CommandAI_load_history(f)
    ELSE CLAI_load_history(f)

InitConstruct ==
    /\ impl \in Impls
    /\ handler = "__init__"
    /\ pc = "load_config"
    /\ config = nothing
    /\ default_config = DEFAULT_CONFIG
    /\ aliased = FALSE
    /\ config_file \in ConfigFiles
    /\ history = nothing
    /\ history_file \in HistoryFiles
    /\ command = None
    /\ chosen = "unset"
    /\ entered = "unset"
    /\ written = <<>>
    /\ messages = <<>>
    /\ outcome = None
    /\ response = <<>>
    /\ cmd = None
    /\ printed = <<>>
    /\ frames = <<>>
    /\ shown = <<>>
    /\ typed = "unset"
    /\ run_prompt = "unset"
    /\ executed = <<>>
    /\ result = "none"

\* self.config = self.load_config()
LoadConfig ==
    /\ pc = "load_config"
    /\ \E write_ok \in BOOLEAN :
           LET l == load_config(config_file, write_ok)
           IN  /\ config_file' = l.file
               /\ printed' = printed \o l.prints
               /\ aliased' = (~l.raises /\ l.value # config_file.content)
               /\ IF l.raises
                  THEN /\ pc' = "raised"
                       /\ result' = "raised"
                       /\ UNCHANGED config
                  ELSE /\ pc' = "load_history"
                       /\ config' = l.value
                       /\ UNCHANGED result
    /\ UNCHANGED <<impl, default_config, chosen, entered, written, messages,
                   response, cmd, frames, handler, history, history_file,
                   command, outcome, shown, typed, run_prompt, executed>>

\* self.history = self.load_history()
LoadHistory ==
    /\ pc = "load_history"
    /\ LET l == load_history(history_file)
       IN  /\ history_file' = l.file
           /\ printed' = printed \o l.prints
           /\ history' = l.value
    /\ pc' = "constructed"
    /\ result' = "constructed"
    /\ UNCHANGED <<impl, default_config, aliased, chosen, entered, written, messages,
                   response, cmd, frames, handler, config, config_file,
                   command, outcome, shown, typed, run_prompt, executed>>

NextConstruct ==
    \/ LoadConfig
    \/ LoadHistory

SpecConstruct == InitConstruct /\ [][NextConstruct]_vars

(***************************************************************************)
(* save_history on histories long enough to be cut: called on a history    *)
(* set up directly, as the tests do, and after each append of a query      *)
(***************************************************************************)

\* the longest history
MaxEntries == 22

InitHistory ==
    /\ impl \in Impls
    /\ handler = "save_history"
    /\ pc = "save_history"
    /\ config = DEFAULT_CONFIG
    /\ default_config = DEFAULT_CONFIG
    /\ aliased = FALSE
    /\ config_file = DEFAULT_CONFIG
    /\ \E n \in 0..MaxEntries : history = entries(n)
    /\ history_file = <<>>
    /\ command = None
    /\ chosen = "unset"
    /\ entered = "unset"
    /\ written = <<>>
    /\ messages = <<>>
    /\ outcome = None
    /\ response = <<>>
    /\ cmd = None
    /\ printed = <<>>
    /\ frames = <<>>
    /\ shown = <<>>
    /\ typed = "unset"
    /\ run_prompt = "unset"
    /\ executed = <<>>
    /\ result = "none"

\* self.history.append(...) of a query, which save_history follows
AppendQuery ==
    /\ pc = "saved"
    /\ Len(history) < MaxEntries
    /\ history' = Append(history, entry(Len(history)))
    /\ pc' = "save_history"
    /\ result' = "none"
    /\ printed' = <<>>
    /\ UNCHANGED <<impl, default_config, aliased, chosen, entered, written, messages,
                   response, cmd, frames, handler, config, config_file,
                   history_file, command, outcome, shown, typed, run_prompt,
                   executed>>

\* one call of save_history: the write succeeds or fails
SaveHistory ==
    /\ pc = "save_history"
    /\ \E write_ok \in BOOLEAN :
           /\ history_file' = save_history(history, write_ok)
           /\ result' = IF write_ok THEN "written" ELSE "write failed"
           /\ pc' = IF save_history_raises(write_ok) THEN "raised" ELSE "saved"
           /\ printed' = save_history_prints(write_ok)
    /\ UNCHANGED <<impl, default_config, aliased, chosen, entered, written, messages,
                   response, cmd, frames, handler, config, config_file,
                   history, command, outcome, shown, typed, run_prompt,
                   executed>>

NextHistory ==
    \/ AppendQuery
    \/ SaveHistory

SpecHistory == InitHistory /\ [][NextHistory]_vars

(***************************************************************************)
(* configure called on an object, over every choice of its menu, and       *)
(* load_config called again afterwards on a file it cannot use             *)
(***************************************************************************)

\* what the user types at the menu: an empty line, the five choices, a
\* number that is not on the menu
MenuChoices == {"", "1", "2", "3", "4", "5", "6"}

InitConfigure ==
    /\ impl \in Impls
    /\ handler = "configure"
    /\ pc = "configure"
    /\ config \in InitialConfigs
    /\ default_config = DEFAULT_CONFIG
    /\ aliased \in (IF config = DEFAULT_CONFIG THEN BOOLEAN ELSE {FALSE})
    /\ config_file = config
    /\ history = <<>>
    /\ history_file = <<>>
    /\ command = None
    /\ chosen = "unset"
    /\ entered = "unset"
    /\ written = <<>>
    /\ messages = <<>>
    /\ outcome = None
    /\ response = <<>>
    /\ cmd = None
    /\ printed = <<>>
    /\ frames = <<>>
    /\ shown = <<>>
    /\ typed = "unset"
    /\ run_prompt = "unset"
    /\ executed = <<>>
    /\ result = "none"

\* one call of configure; a setting changed in self.config is changed in
\* DEFAULT_CONFIG when the two are the same object
Configure ==
    /\ pc = "configure"
    /\ \E choice_text \in MenuChoices, value_text \in Values, write_ok \in BOOLEAN :
           LET after == configure(choice_text, value_text, write_ok)
           IN  /\ config' = after.config
               /\ default_config' = IF aliased THEN after.config ELSE default_config
               /\ config_file' = after.config_file
               /\ chosen' = after.choice
               /\ entered' = after.value
               /\ written' = after.written
               /\ printed' = printed \o after.prints
               /\ result' = IF after.raised THEN "raised" ELSE "None"
    /\ pc' = "configured"
    /\ UNCHANGED <<impl, aliased, messages, response, cmd, frames,
                   handler, history, history_file, command, outcome, shown,
                   typed, run_prompt, executed>>

\* load_config called again when CONFIG_FILE is missing or cannot be used:
\* it returns DEFAULT_CONFIG
Reload ==
    /\ pc = "configured"
    /\ config' = default_config
    /\ aliased' = TRUE
    /\ pc' = "reloaded"
    /\ UNCHANGED <<impl, default_config, config_file, chosen, entered, written,
                   messages, response, cmd, printed, frames, handler, history,
                   history_file, command, outcome, shown, typed, run_prompt,
                   executed, result>>

NextConfigure ==
    \/ Configure
    \/ Reload

SpecConfigure == InitConfigure /\ [][NextConfigure]_vars

(***************************************************************************)
(* One turn of the loop of CommandAI.extract_command: a line is stripped,  *)
(* passed over when blank, and classified                                  *)
(***************************************************************************)

\* how a line starts: with a lead-in of an explanation in either case, with a
\* heading mark, with a command prefix, with a word that begins with the
\* letters of one, with another word
LineHeads ==
    {
     <<>>, <<"T", "o", " ">>, <<"t", "h", "i", "s", " ">>,
     <<"N", "O", "T", "E", ":", " ">>,
     <<"n", "o", "t", "e", " ", "t", "h", "a", "t", " ">>,
     <<"h", "e", "r", "e">>, <<"I", "t", " ">>, <<"#">>, <<"$", " ">>,
     <<"l", "s", " ">>, <<"s", "u", "d", "o", " ">>, <<".", "/">>,
     <<"d", "u", "e", " ">>, <<"c", "a", "t">>, <<"s", "h", "o", "w", " ">>
    }

\* what follows: plain words, a tab for the only whitespace, full stops and
\* commas up to and past the limit, with and without find and grep, the
\* operators
LineBodies ==
    {
     <<"a">>, <<"a", " ", "b">>, <<"a", "\t", "b">>,
     <<"a", ".", "b", ".", "c">>, <<"a", ".", "b", ".", "c", ".", "d">>,
     <<"a", ",", "b", ",", "c", ",", "d">>,
     <<"f", "i", "n", "d", " ", "a", ".", "b", ".", "c", ".", "d">>,
     <<"g", "r", "e", "p", " ", "a", ",", "b", ",", "c", ",", "d">>,
     <<"a", " ", "&", "&", " ", "b">>, <<"a", " ", "|", "|", " ", "b">>,
     <<"a", " ", "|", " ", "b">>, <<"a", "|", "b">>, <<"a", ";", "b">>,
     <<"a", ">", "b">>, <<"a", "<", "b">>
    }

\* x repeated n times
xs(n) == [i \in 1..n |-> "x"]

\* the line as it is, and made as long as LongLine and one longer
Padded(line) ==
    {line, line \o xs(LongLine - Len(line)), line \o xs(LongLine + 1 - Len(line))}

\* the lines of the loop: with whitespace around them, and blank ones
Lines ==
    {<<>>, <<" ", "\t">>}
    \cup UNION {Padded(head \o body) : head \in LineHeads, body \in LineBodies}
    \cup {<<" ">> \o head \o <<"a", " ">> : head \in LineHeads}

\* the locals of the turn
turn(line, explanation, strong) ==
    [line |-> line, is_explanation |-> explanation, is_command |-> strong]

InitClassify ==
    /\ impl = "CommandAI"
    /\ pc = "loop"
    /\ response \in Lines
    /\ cmd = None
    /\ printed = <<>>
    /\ frames = <<>>
    /\ NoSession

\* if not line: continue
SkipBlank ==
    /\ pc = "loop"
    /\ strip(response) = <<>>
    /\ pc' = "skipped"
    /\ UNCHANGED <<impl, response, cmd, printed, frames, session_vars>>

\* the body of the loop for a line that is not blank
Classify ==
    /\ pc = "loop"
    /\ LET line == strip(response)
       IN  /\ line # <<>>
           /\ frames' = <<turn(line, is_explanation(line), is_command(line))>>
    /\ pc' = "classified"
    /\ UNCHANGED <<impl, response, cmd, printed, session_vars>>

NextClassify ==
    \/ SkipBlank
    \/ Classify

SpecClassify == InitClassify /\ [][NextClassify]_vars

(***************************************************************************)
(* CommandAI.extract_command called several times side by side, each call  *)
(* going through its steps: the code-block attempt, one turn of the loop   *)
(* per line, the selection                                                 *)
(***************************************************************************)

\* the number of calls that run side by side
NumCalls == 2

Calls == 1..NumCalls

\* the responses of the calls: an explanation above a command, a plain word
\* above a command with a $, a bash block, the empty string
ConcurrentResponses ==
    {
     <<"i", "t", " ", "i", "s", "\n">> \o ls_la,
     <<"p", "w", "d", "\n">> \o dollar_ls,
     reply_block,
     <<>>
    }

\* all the calls keep their two lists in the frame of the first call
locals_of_shared(call) == 1

\* the frame that holds command_lines and candidate_lines of a call: its own
locals_of(call) == call

\* a call before its first step
new_frame(resp) ==
    [response |-> resp, pc |-> "blocks", lines |-> <<>>, i |-> 1,
     command_lines |-> <<>>, candidate_lines |-> <<>>, result |-> None]

InitConcurrent ==
    /\ impl = "CommandAI"
    /\ pc = "concurrent"
    /\ response = <<>>
    /\ cmd = None
    /\ printed = <<>>
    /\ frames \in [Calls -> {new_frame(resp) : resp \in ConcurrentResponses}]
    /\ NoSession

\* the code-block attempt of a call; when it extracts nothing the response is
\* split and the two lists start empty
ExtractBlocks ==
    /\ \E call \in Calls :
           /\ frames[call].pc = "blocks"
           /\ LET block == code_block(frames[call].response)
              IN  frames' =
                      IF block # <<>>
                      THEN [frames EXCEPT ![call].pc = "done",
                                          ![call].result = block[1]]
                      ELSE [frames EXCEPT
                                ![call].pc = "loop",
                                ![call].lines = split(frames[call].response),
                                ![locals_of(call)].command_lines = <<>>,
                                ![locals_of(call)].candidate_lines = <<>>]
    /\ UNCHANGED <<impl, pc, response, cmd, printed, session_vars>>

\* one turn of the loop over the lines of a call
ExtractLoop ==
    /\ \E call \in Calls :
           /\ frames[call].pc = "loop"
           /\ frames[call].i <= Len(frames[call].lines)
           /\ LET line == strip(frames[call].lines[frames[call].i])
                  mine == locals_of(call)
              IN  frames' =
                      IF line = <<>>
                      THEN [frames EXCEPT ![call].i = @ + 1]
                      ELSE [frames EXCEPT
                                ![call].i = @ + 1,
                                ![mine].candidate_lines =
                                    IF ~is_explanation(line)
                                    THEN Append(@, line) ELSE @,
                                ![mine].command_lines =
                                    IF is_command(line)
                                    THEN Append(@, processed_line(line)) ELSE @]
    /\ UNCHANGED <<impl, pc, response, cmd, printed, session_vars>>

\* the selection of a call after its loop
ExtractSelect ==
    /\ \E call \in Calls :
           /\ frames[call].pc = "loop"
           /\ frames[call].i > Len(frames[call].lines)
           /\ LET mine == frames[locals_of(call)]
                  ls == stripped_lines(frames[call].lines)
              IN  frames' =
                      [frames EXCEPT
                           ![call].pc = "done",
                           ![call].result =
                               IF mine.command_lines # <<>>
                               THEN index0(mine.command_lines)
                               ELSE IF mine.candidate_lines # <<>>
                               THEN index0(mine.candidate_lines)
                               ELSE IF ls # <<>> THEN index0(ls)
                               ELSE strip(frames[call].response)]
    /\ UNCHANGED <<impl, pc, response, cmd, printed, session_vars>>

NextConcurrent == ExtractBlocks \/ ExtractLoop \/ ExtractSelect

SpecConcurrent == InitConcurrent /\ [][NextConcurrent]_vars

(***************************************************************************)
(* The vocabulary of the claims                                            *)
(***************************************************************************)

\* the characters a response is made of
Characters == {"\n"} \cup UNION {{seg[i] : i \in 1..Len(seg)} : seg \in FenceSegments \cup LineSegments \cup HeuristicSegments}

\* x is a Python str: not a raised exception, not None
IsStr(x) == \A i \in 1..Len(x) : x[i] \in Characters

\* The fenced code blocks of a response, read line by line: a line that starts
\* with a fence opens a block, the rest of that line is its tag; the next line
\* that is a fence alone closes it; the lines between are its content. A block
\* that is never closed is no block.
RECURSIVE scan_blocks(_, _, _, _)
scan_blocks(lines, i, open, blocks) ==
    IF i > Len(lines) THEN blocks
    ELSE LET l == lines[i]
         IN  IF open = <<>>
             THEN IF startswith(l, FENCE)
                  THEN scan_blocks(lines, i + 1,
                                   <<strip(SubSeq(l, Len(FENCE) + 1, Len(l))), <<>>>>, blocks)
                  ELSE scan_blocks(lines, i + 1, <<>>, blocks)
             ELSE IF strip(l) = FENCE
                  THEN scan_blocks(lines, i + 1, <<>>,
                                   Append(blocks, [tag |-> open[1], content |-> join(open[2])]))
                  ELSE scan_blocks(lines, i + 1, <<open[1], Append(open[2], l)>>, blocks)

FencedBlocks(resp) == scan_blocks(split(resp), 1, <<>>, <<>>)

\* every backtick of the response belongs to the opening or the closing fence
\* of a complete block: no stray, unclosed, nested or inline fence
FencesPaired(resp) == count(resp, BT) = 2 * Len(FENCE) * Len(FencedBlocks(resp))

\* a tag that reads bash in any casing
IsBashTag(tag) == lower(tag) = BASH

\* the block the specification selects: the first bash-tagged one, else the first
SelectedBlock(blocks) ==
    IF \E i \in 1..Len(blocks) : IsBashTag(blocks[i].tag)
    THEN blocks[CHOOSE i \in 1..Len(blocks) :
                    /\ IsBashTag(blocks[i].tag)
                    /\ \A k \in 1..(i - 1) : ~IsBashTag(blocks[k].tag)]
    ELSE blocks[1]

\* two fences that do not overlap: what either regular expression needs
HasFencePair(resp) ==
    LET i == find(resp, FENCE, 1)
    IN  i # 0 /\ find(resp, FENCE, i + Len(FENCE)) # 0

\* a line with its leading $ and the whitespace after it removed
DollarStripped(line) == IF startswith(line, <<"$">>) THEN lstrip(Tail(line)) ELSE line

\* the stripped non-blank lines of a response
NonBlank(resp) == stripped_lines(split(resp))

\* the index of the first line flagged as a strong command signal, 0 when none
FirstStrong(ls) ==
    IF \E j \in 1..Len(ls) : is_command(ls[j])
    THEN CHOOSE j \in 1..Len(ls) : is_command(ls[j]) /\ \A k \in 1..(j - 1) : ~is_command(ls[k])
    ELSE 0

Done == pc = "done"

(***************************************************************************)
(* extract_command: the claims                                             *)
(***************************************************************************)

\* C1: extract_command is total: for every response, the empty one, the
\* whitespace-only ones and those with unclosed or stray fences included, it
\* returns a str and raises nothing, in both revisions.
C1_Total == Done => cmd # IndexError /\ cmd # None /\ IsStr(cmd)

\* a call has returned on a response with one stray fence
C1_Witness == Done /\ contains(response, FENCE) /\ ~HasFencePair(response) /\ IsStr(cmd)

\* C2: run_command is called only when auto_run_prompt is enabled, the
\* extracted command was shown and the user typed y at the Execute prompt of
\* that query (an empty line stands for n); the command it gets is the
\* extracted command that was shown, and a query runs at most one command.
C2_RunOnlyConfirmed ==
    executed # <<>> =>
        /\ get(config, "auto_run_prompt", TRUE)
        /\ shown = <<cmd>>
        /\ typed = "y"
        /\ run_prompt = "y"
        /\ executed = <<cmd>>
        /\ cmd = self_extract_command(response)
        /\ history # <<>>
        /\ history[Len(history)] = [query |-> command, response |-> response]

\* a confirmed command has run, in process_command and in one_shot_mode
C2_Witness ==
    /\ executed = <<ls_la>>
    /\ typed = "y"
    /\ pc \in {"returned", "exit"}

\* C3 as stated: when the response holds a bash-tagged block, the result is
\* the trimmed content of the first bash-tagged block, whatever blocks and
\* text stand before or after it. (Every fence opens or closes a complete
\* block and the only casing of the bash tag is the lower-case one.)
C3_FirstBashBlock ==
    LET blocks == FencedBlocks(response)
    IN  (/\ Done
         /\ FencesPaired(response)
         /\ \A i \in 1..Len(blocks) : IsBashTag(blocks[i].tag) => blocks[i].tag = BASH
         /\ \E i \in 1..Len(blocks) : blocks[i].tag = BASH)
        => cmd = strip(SelectedBlock(blocks).content)

\* C4 as stated: when the trimmed content of the selected block begins with
\* $, the result is that content without the $ and the spaces after it.
C4_DollarInBlock ==
    LET blocks == FencedBlocks(response)
    IN  (/\ Done
         /\ FencesPaired(response)
         /\ blocks # <<>>
         /\ \A i \in 1..Len(blocks) : blocks[i].tag \in {<<>>, BASH}
         /\ startswith(strip(SelectedBlock(blocks).content), <<"$">>))
        => cmd = DollarStripped(strip(SelectedBlock(blocks).content))

\* the premise of C5: CommandAI has returned on a response without a fenced
\* block whose first non-blank line is an explanation and no command, and
\* which has a line with a strong command signal
C5_Case ==
    LET ls == NonBlank(response)
    IN  /\ Done
        /\ impl = "CommandAI"
        /\ ~HasFencePair(response)
        /\ ls # <<>>
        /\ is_explanation(ls[1])
        /\ ~is_command(ls[1])
        /\ FirstStrong(ls) # 0

C6_Case ==
    /\ Done
    /\ impl = "CLAI"
    /\ ~HasFencePair(response)
    /\ Len(NonBlank(response)) >= 2

C7_FirstGenericBlock ==
    LET blocks == FencedBlocks(response)
    IN  (/\ Done
         /\ FencesPaired(response)
         /\ blocks # <<>>
         /\ \A i \in 1..Len(blocks) : ~IsBashTag(blocks[i].tag))
        => cmd = strip(blocks[1].content)

\* C8 as stated: a block tagged bash in any casing is selected before the
\* untagged blocks and its content is returned without the tag.
C8_TagAnyCase ==
    LET blocks == FencedBlocks(response)
    IN  (/\ Done
         /\ FencesPaired(response)
         /\ \A i \in 1..Len(blocks) : blocks[i].tag = <<>> \/ IsBashTag(blocks[i].tag)
         /\ \E i \in 1..Len(blocks) : IsBashTag(blocks[i].tag))
        => cmd = strip(SelectedBlock(blocks).content)

\* the premise of C9: a call has returned on a response whose fences open and
\* close complete blocks, untagged or tagged bash, and the selected block
\* holds several lines
C9_Case ==
    LET blocks == FencedBlocks(response)
    IN  /\ Done
        /\ FencesPaired(response)
        /\ blocks # <<>>
        /\ \A i \in 1..Len(blocks) : blocks[i].tag \in {<<>>, BASH}
        /\ contains(SelectedBlock(blocks).content, <<"\n">>)

\* C9: in that case the result is the content of the selected block, every
\* inner line and newline as it stands, without the whitespace at its two ends.
C9_MultiLine ==
    C9_Case => cmd = strip(SelectedBlock(FencedBlocks(response)).content)

\* two lines came back, the second one with the blank it starts with
C9_Witness ==
    C9_Case /\ cmd = ls_la \o <<"\n", " ", "p", "w", "d">>

\* the line the fallback selects, before the $ is removed
SelectedLine ==
    LET ls == NonBlank(response)
        cand == candidate_lines(ls)
    IN  IF impl = "CLAI" THEN ls[1]
        ELSE IF FirstStrong(ls) # 0 THEN ls[FirstStrong(ls)]
        ELSE IF cand # <<>> THEN cand[1]
        ELSE ls[1]

\* the premise of C10: a call has returned on a response without a fenced
\* block whose selected line begins with $
C10_Case ==
    /\ Done
    /\ ~HasFencePair(response)
    /\ NonBlank(response) # <<>>
    /\ startswith(SelectedLine, <<"$">>)

\* C10: in that case the result is the selected line without its leading $
\* and the whitespace after it, in both revisions.
C10_DollarLine == C10_Case => cmd = lstrip(Tail(SelectedLine))

\* "$ ls" came back as "ls"
C10_Witness == C10_Case /\ SelectedLine = dollar_ls /\ cmd = <<"l", "s">>

\* the premise of C11: a call has returned on a response that has one
\* non-blank line, no fenced block and no leading $
C11_Case ==
    /\ Done
    /\ ~HasFencePair(response)
    /\ Len(NonBlank(response)) = 1
    /\ ~startswith(strip(response), <<"$">>)

\* C11: in that case the result is that line trimmed, be it a command or
\* prose, and extract_command applied to the result returns the result.
C11_SingleLine ==
    C11_Case => cmd = strip(response) /\ self_extract_command(cmd) = cmd

\* a line of prose with blank lines around it came back trimmed
C11_Witness ==
    /\ C11_Case
    /\ is_explanation(cmd)
    /\ ~is_command(cmd)
    /\ Len(response) > Len(cmd)

\* C12: for the empty string and for a response of whitespace only the result
\* is the empty string, in both revisions.
C12_Blank == (Done /\ strip(response) = <<>>) => cmd = <<>>

\* lines of blanks and tabs gave the empty string
C12_Witness ==
    /\ Done
    /\ strip(response) = <<>>
    /\ contains(response, <<"\n">>)
    /\ contains(response, <<"\t">>)
    /\ cmd = <<>>

\* the premise of C13: CommandAI has returned on a response without a fenced
\* block
C13_Case == Done /\ impl = "CommandAI" /\ ~HasFencePair(response)

\* the index of the first line not classified as an explanation, 0 when none
FirstPlain(ls) ==
    IF \E j \in 1..Len(ls) : ~is_explanation(ls[j])
    THEN CHOOSE j \in 1..Len(ls) :
             ~is_explanation(ls[j]) /\ \A k \in 1..(j - 1) : is_explanation(ls[k])
    ELSE 0

C14_Substring == Done => cmd = <<>> \/ contains(response, cmd)

\* two lines came back from the middle of the response
C14_Witness ==
    /\ Done
    /\ contains(cmd, <<"\n">>)
    /\ find(response, cmd, 1) > 1
    /\ find(response, cmd, 1) + Len(cmd) <= Len(response)

\* C15 as stated: extract_command reads its argument only, prints nothing,
\* leaves the configuration, the history and the rest of the state as they
\* were, and its result is a function of its argument.
C15_Pure ==
    Done =>
        /\ printed = <<>>
        /\ NoSession
        /\ cmd = self_extract_command(response)

\* C16: under every interleaving of the steps of the calls that run side by
\* side, a call that has returned has returned what extract_command returns
\* on its response when run alone.
C16_Alone ==
    \A call \in DOMAIN frames :
        frames[call].pc = "done" =>
            frames[call].result = extract_command(frames[call].response)

\* the first call has returned a command its loop found while the second
\* call, on another response, is in the middle of its loop
C16_Witness ==
    /\ pc = "concurrent"
    /\ frames[1].pc = "done"
    /\ frames[1].command_lines # <<>>
    /\ frames[1].result = ls_la
    /\ frames[2].pc = "loop"
    /\ frames[2].i = 2
    /\ frames[2].candidate_lines # <<>>
    /\ frames[2].response # frames[1].response

\* query_llm has returned after it sent a request: the configuration has the
\* keys it reads and names the ollama backend
Requested ==
    /\ handler = "query_llm"
    /\ pc = "answered"
    /\ {"prompt_prefix", "type", "model", "url"} \subseteq DOMAIN config
    /\ config["type"] = "ollama"

\* the three failures of C17, each reported as the returned string
FailuresReported ==
    /\ result = "returned"
    /\ outcome.kind = "status" =>
           response = error_http \o str_int(outcome.status) \o <<" ", "-", " ">>
                          \o outcome.text
    /\ outcome.kind = "ClientError" =>
           response = connection_error \o outcome.text
    /\ outcome.kind = "Exception" => response = error_prefix \o outcome.text

\* C17 as stated: a failed request is returned as its error string, and a 200
\* reply returns the message content.
C17_Original ==
    Requested =>
        /\ FailuresReported
        /\ outcome.kind = "content" => response = outcome.text

\* C17: a failed request is returned as its error string; a 200 reply returns
\* the message content, and "No response" when it has no message content or,
\* in CLAI, an empty one.
C17_Reported ==
    Requested =>
        /\ FailuresReported
        /\ outcome.kind = "no content" => response = no_response
        /\ outcome.kind = "content" =>
               response = IF impl = "CLAI" /\ outcome.text = <<>>
                          THEN no_response
                          ELSE outcome.text

\* the server answered 500 with a body and query_llm returned the error string
C17_Witness ==
    /\ Requested
    /\ outcome = http_error(500, internal_server_error)
    /\ result = "returned"
    /\ response =
           <<"E", "r", "r", "o", "r", ":", " ", "H", "T", "T", "P", " ",
             "5", "0", "0", " ", "-", " ", "I", "n", "t", "e", "r", "n",
             "a", "l", " ", "S", "e", "r", "v", "e", "r", " ", "E", "r",
             "r", "o", "r">>

\* load_config has run in __init__
ConfigLoaded ==
    /\ handler = "__init__"
    /\ pc \in {"load_history", "constructed", "raised"}

\* C18 as stated: load_config does not raise; a config file that cannot be
\* read, does not parse or does not hold an object gives DEFAULT_CONFIG and a
\* printed warning; a missing file gives DEFAULT_CONFIG whether or not the
\* file could be created.
C18_Degrades ==
    ConfigLoaded =>
        /\ pc # "raised"
        /\ config_file.status = "missing" => config = json_object(DEFAULT_CONFIG)
        /\ (\/ config_file.status \in FileFaults
            \/ config_file.status = "ok" /\ config_file.content.type # "object")
           => /\ config = json_object(DEFAULT_CONFIG)
              /\ printed # <<>>
        /\ (config_file.status = "ok" /\ config_file.content.type = "object")
           => config = config_file.content

\* C19 as stated: load_history does not raise; a history file that is
\* missing, cannot be read, does not parse or does not hold a list gives the
\* empty history; a file that holds a list gives that list.
C19_EmptyOrStored ==
    (handler = "__init__" /\ pc = "constructed") =>
        /\ result # "raised"
        /\ IF history_file.status = "ok" /\ history_file.content.type = "array"
           THEN history = history_file.content
           ELSE history = json_array(<<>>)

\* the history file holds the last entries of the history in memory, at
\* most 20 of them and in their order: all of them for a history of up to 20
\* entries, the last 20 for a longer one
LastTwentySaved ==
    /\ Len(history_file) = IF Len(history) > 20 THEN 20 ELSE Len(history)
    /\ \A i \in 1..Len(history_file) :
           history_file[i] = history[Len(history) - Len(history_file) + i]

Returned ==
    /\ handler = "process_command"
    /\ pc = "returned"
    /\ result # "raised"

\* C21 as stated: process_command returns a false value when the trimmed
\* input is !quit and a true value for every other input, a blank line
\* included.
C21_FalseOnlyOnQuit ==
    Returned => (result \in {"False", "None"} <=> command = QUIT)


\* configure has gone past its menu
Configured == handler = "configure" /\ pc = "configured" /\ chosen # "unset"

\* C22 as stated: after configure got a choice outside 1 to 5, nothing was
\* written to the config file and the configuration in memory and the file
\* are as they were.
C22_InvalidNotSaved ==
    (Configured /\ chosen \notin {"1", "2", "3", "4", "5"}) =>
        /\ result # "raised"
        /\ written = <<>>
        /\ config = config_file


\* configure returns after a choice of its menu
ConfigureReturns ==
    /\ handler = "configure"
    /\ pc = "configure"
    /\ pc' = "configured"
    /\ chosen' # "unset"
    /\ result' # "raised"

\* the choice made changes a setting: a value that differs from the current
\* one for the model, the URL or the prompt prefix, or option 4
ChangesSetting ==
    \/ chosen' = "4"
    \/ chosen' \in DOMAIN asked /\ entered' # config[asked[chosen']]

\* the configuration in memory holds the new value, or auto_run_prompt
\* flipped with a missing key counting as enabled, and nothing else changed
NewValueHeld ==
    config' = IF chosen' = "4"
              THEN [k \in DOMAIN config \cup {"auto_run_prompt"} |->
                       IF k = "auto_run_prompt"
                       THEN IF k \in DOMAIN config THEN ~config[k] ELSE FALSE
                       ELSE config[k]]
              ELSE [config EXCEPT ![asked[chosen']] = entered']

\* the whole configuration was written once to the config file
WrittenOnce == written' = <<config'>> /\ config_file' = config'

Classified == pc = "classified"

\* p occurs in line
Occurs(line, p) ==
    \E i \in 1..(Len(line) - Len(p) + 1) : \A k \in 1..Len(p) : line[i + k - 1] = p[k]

\* line starts with p
StartsWith(line, p) == Len(p) <= Len(line) /\ SubSeq(line, 1, Len(p)) = p

\* the number of places of line that hold the character c
Times(line, c) == Cardinality({i \in 1..Len(line) : line[i] = c})

\* the tests of an explanation other than the one on the length: a lead-in
\* in either case, a heading mark, more than two full stops or commas in a
\* line without find and grep
ExplainedAnyLength(line) ==
    \/ \E p \in explan_prefixes : StartsWith(lower(line), p)
    \/ StartsWith(line, <<"#">>)
    \/ /\ Times(line, ".") > 2 \/ Times(line, ",") > 2
       /\ ~Occurs(line, <<"f", "i", "n", "d", " ">>)
       /\ ~Occurs(line, <<"g", "r", "e", "p", " ">>)

\* longer than 120 characters and without && and ||
LongUnchained(line) ==
    /\ Len(line) > 120
    /\ ~Occurs(line, <<"&", "&">>)
    /\ ~Occurs(line, <<"|", "|">>)

\* C24 as stated: a non-blank line is an explanation exactly when it has a
\* lead-in, or starts with #, or is longer than 120 characters with
\* whitespace in it and neither && nor ||, or has more than two full stops
\* or commas and neither find nor grep.
C24_Original ==
    Classified =>
        LET line == frames[1].line
        IN  frames[1].is_explanation <=>
                \/ ExplainedAnyLength(line)
                \/ /\ LongUnchained(line)
                   /\ \E i \in 1..Len(line) : line[i] \in Whitespace

\* C24: the same, the long line being one that has a space in it: a tab does
\* not count.
C24_Explanation ==
    Classified =>
        LET line == frames[1].line
        IN  frames[1].is_explanation <=>
                \/ ExplainedAnyLength(line)
                \/ /\ LongUnchained(line)
                   /\ \E i \in 1..Len(line) : line[i] = " "

\* a line of 121 characters with a space and nothing else of an explanation
\* was classified as one
C24_Witness ==
    /\ Classified
    /\ Len(frames[1].line) = 121
    /\ SubSeq(frames[1].line, 1, 4) = <<"a", " ", "b", "x">>
    /\ frames[1].is_explanation


\* the first word of a line: what comes before its first space or tab
FirstWord(line) ==
    LET ends == {i \in 1..Len(line) : line[i] \in Whitespace}
    IN  IF ends = {} THEN line
        ELSE SubSeq(line, 1, (CHOOSE i \in ends : \A j \in ends : i <= j) - 1)

\* the line holds one of the operators
HasOperator(line) == \E ind \in command_indicators : Occurs(line, ind)

\* C25 as stated: a non-blank line is a strong command signal exactly when it
\* holds one of the operators or starts with one of the command prefixes; a
\* line whose first word is made of letters, is none of the commands and
\* which holds no operator is not one.
C25_StrongSignal ==
    Classified =>
        LET line == frames[1].line
            word == FirstWord(line)
        IN  /\ frames[1].is_command <=>
                   \/ HasOperator(line)
                   \/ \E pref \in command_prefixes : StartsWith(line, pref)
            /\ (/\ \A i \in 1..Len(word) : word[i] \in {LowerOf[c] : c \in UpperCase}
                /\ word \notin command_prefixes
                /\ ~HasOperator(line))
               => ~frames[1].is_command


(***************************************************************************)
(* The session: the claims on the history                                  *)
(***************************************************************************)

\* the running call is a query to the LLM in a session
Querying == handler \in {"process_command", "one_shot_mode"} /\ pc = "query_llm"

\* query_llm returns for this configuration
Answers ==
    /\ {"prompt_prefix", "type"} \subseteq DOMAIN config
    /\ config["type"] = "ollama" => "model" \in DOMAIN config

\* the Execute prompt is shown, or a command has been run
Prompted == pc = "Execute?" \/ executed # <<>>

\* the last entry of the history is the exchange of the running call
Recorded ==
    /\ history # <<>>
    /\ history[Len(history)] = [query |-> command, response |-> response]

\* the history file holds the history of up to 20 entries
Persisted == Len(history) <= 20 /\ history_file = history

\* a query that query_llm answers puts one entry at the end of the history
AppendsOne ==
    (Querying /\ Answers /\ pc' # pc) =>
        /\ Len(history') = Len(history) + 1
        /\ SubSeq(history', 1, Len(history)) = history
        /\ history'[Len(history')] = [query |-> command, response |-> response']

\* the answer at the Execute prompt changes neither the history nor its file
AnswerKeeps == pc = "Execute?" => UNCHANGED <<history, history_file>>

\* blank lines and the ! commands other than !clear change neither
CommandsKeep ==
    (Calling /\ pc' = "returned" /\ command' # CLEAR) =>
        UNCHANGED <<history, history_file>>

Sent == handler = "query_llm" /\ pc = "answered" /\ messages # <<>>

\* the number of exchanges sent along: the last 5, or all of fewer
Context == IF Len(history) < 5 THEN Len(history) ELSE 5

\* C27: the message list is the system message with prompt_prefix, then the
\* query and the response of each of the last min(5, n) of the n entries of
\* the history, oldest first, then the prompt as a user message: at most 12
\* messages; and the history is the one from before the query.
C27_Messages ==
    Sent =>
        /\ Len(messages) = 2 * Context + 2
        /\ Len(messages) <= 12
        /\ messages[1] = [role |-> "system", content |-> config["prompt_prefix"]]
        /\ \A j \in 1..Context :
               LET item == history[Len(history) - Context + j]
               IN  /\ messages[2 * j] = [role |-> "user", content |-> item.query]
                   /\ messages[2 * j + 1] =
                          [role |-> "assistant", content |-> item.response]
        /\ messages[Len(messages)] = [role |-> "user", content |-> command]
        /\ \A j \in 1..Len(history) : history[j] = entry(j - 1)

\* query_llm was called with a history of 7 entries and sent 12 messages, the
\* first exchange sent being the third of the history
C27_Witness ==
    /\ Sent
    /\ Len(history) = 7
    /\ Len(messages) = 12
    /\ messages[2].content = <<"q", "2">>
    /\ messages[11].content = <<"r", "6">>


\* C28 as stated: configure does not alter DEFAULT_CONFIG, and a load_config
\* that falls back to the defaults after configure returns the original
\* values.
C28_DefaultsKept ==
    handler = "configure" =>
        /\ default_config = DEFAULT_CONFIG
        /\ pc = "reloaded" => config = DEFAULT_CONFIG


\* C29 as stated: with every configuration load_config accepts, one with the
\* keys model and url alone included, query_llm returns a string and does
\* not raise.
C29_QueryReturns ==
    (handler = "query_llm" /\ pc = "answered") =>
        result = "returned"


(***************************************************************************)
(* extract_command: the claim on the whitespace of the result              *)
(***************************************************************************)

\* C30: the string extract_command returns has no whitespace at either end,
\* whichever step produced it, and it holds no newline when the response has
\* no pair of fences.
C30_Trimmed ==
    Done =>
        /\ IsStr(cmd)
        /\ cmd # <<>> => (cmd[1] \notin Whitespace /\ cmd[Len(cmd)] \notin Whitespace)
        /\ ~HasFencePair(response) => \A i \in 1..Len(cmd) : cmd[i] # "\n"

\* a line with a $ and whitespace on both sides was selected from a response
\* without fences and came back bare
C30_Witness ==
    /\ Done
    /\ ~HasFencePair(response)
    /\ \E i \in 1..Len(response) : response[i] = "\n"
    /\ \E j \in 1..Len(NonBlank(response)) :
           /\ startswith(NonBlank(response)[j], <<"$", " ">>)
           /\ cmd = strip(Tail(NonBlank(response)[j]))
    /\ \E k \in 1..(Len(response) - Len(cmd) - 1) :
           /\ SubSeq(response, k + 1, k + Len(cmd)) = cmd
           /\ response[k] \in Whitespace
           /\ response[k + Len(cmd) + 1] \in Whitespace

=============================================================================
